---- MODULE Spec2Model ----
(***************************************************************************)
(* A model of nala's bootstrapping package:                                *)
(*   nala/bootstrapping/iteration.py        (class Iteration)              *)
(*   nala/bootstrapping/document_filters.py (the document filters)         *)
(*                                                                         *)
(* The file system below the bootstrapping folder is modelled by the names *)
(* of the iteration_* directories (each name is the sequence of characters *)
(* after "iteration_"), the sets of those that hold a candidates and a     *)
(* reviewed sub-directory, the bin_model files and the rows of stats.csv.  *)
(***************************************************************************)
EXTENDS Integers, Sequences, FiniteSets, TLC

VARIABLES
    folder_isdir,     \* os.path.isdir(self.bootstrapping_folder)
    crfsuite_isdir,   \* os.path.isdir(self.crfsuite_path)
    iter_dirs,        \* names s such that <folder>/iteration_<s>/ is a directory
    candidates_dirs,  \* names s such that iteration_<s>/candidates is a directory
    reviewed_dirs,    \* names s such that iteration_<s>/reviewed is a directory
    bin_models,       \* records [dir, train]: iteration_<dir>/bin_model, trained on train
    candidates_html,  \* pairs <<s, docid>>: a document in iteration_<s>/candidates/html
    reviewed_files,   \* pairs <<s, file>>: a file below iteration_<s>/reviewed
    results_files,    \* names s such that iteration_<s>/batch_results.txt exists
    cv_files,         \* records [dir, rows]: iteration_<dir>/cross_validation.csv
    stats_exists,     \* os.path.exists(self.stats_file)
    stats_rows,       \* the rows of stats.csv, in file order
    it,               \* the Iteration object of the last call and what the call did
    fl,               \* a document filter object and the run of its filter() generator
    ev                \* the gold and predicted entities of a part, and their matching

fsVars == <<folder_isdir, crfsuite_isdir, iter_dirs, candidates_dirs, reviewed_dirs,
            bin_models, candidates_html, reviewed_files, results_files, cv_files,
            stats_exists, stats_rows>>
vars == <<folder_isdir, crfsuite_isdir, iter_dirs, candidates_dirs, reviewed_dirs,
          bin_models, candidates_html, reviewed_files, results_files, cv_files,
          stats_exists, stats_rows, it, fl, ev>>

(***************************************************************************)
(* Bounds of the model.                                                    *)
(***************************************************************************)
\* the highest ordinal of an iteration directory present before the first call
MaxIter == 2
\* the most rows stats.csv holds before the model stops appending
MaxStatsRows == 1

(***************************************************************************)
(* Directory names: "iteration_{}".format(n) and int(match.group(1)).      *)
(***************************************************************************)
Digit == {"0", "1", "2", "3", "4", "5", "6", "7", "8", "9"}

DigitVal(c) ==
    CASE c = "0" -> 0 [] c = "1" -> 1 [] c = "2" -> 2 [] c = "3" -> 3 [] c = "4" -> 4
      [] c = "5" -> 5 [] c = "6" -> 6 [] c = "7" -> 7 [] c = "8" -> 8 [] c = "9" -> 9

DigitChr(d) == CHOOSE c \in Digit : DigitVal(c) = d

RECURSIVE Decimal(_)
\* str(n) for n >= 0
Decimal(n) == IF n < 10 THEN <<DigitChr(n)>> ELSE Decimal(n \div 10) \o <<DigitChr(n % 10)>>

\* the part of "iteration_{}".format(n) after "iteration_"
Fmt(n) == IF n < 0 THEN <<"-">> \o Decimal(-n) ELSE Decimal(n)

\* re.search('iteration_([0-9]+)', fn) finds a match: a digit follows "iteration_"
HasMatch(name) == Len(name) > 0 /\ name[1] \in Digit

RECURSIVE LeadingDigits(_, _, _)
LeadingDigits(name, i, acc) ==
    IF i > Len(name) \/ name[i] \notin Digit THEN acc
    ELSE LeadingDigits(name, i + 1, 10 * acc + DigitVal(name[i]))

\* int(match.group(1)): the value of the greedy run of digits after "iteration_"
ParseOrd(name) == LeadingDigits(name, 1, 0)

SetMax(S) == CHOOSE x \in S : \A y \in S : y <= x

(***************************************************************************)
(* Iteration.__init__                                                      *)
(***************************************************************************)
NoArg == [given |-> FALSE, nr |-> 0]
Arg(n) == [given |-> TRUE, nr |-> n]

\* self.train = None, self.candidates = None; self.reviewed is not set at all
NoTrain == <<>>
NoDataset == [isset |-> FALSE, docs |-> {}, gold |-> FALSE, pred |-> FALSE]

\* no call of docselection yet: its arguments, what the pipeline would yield, and
\* how many pairs the call pulled
NoSelection == [nr |-> 0, just_caching |-> FALSE, stream |-> <<>>, pulled |-> 0]

\* the header row written to a new stats.csv
StatsHeader == [kind |-> "header", iteration_number |-> 0, subclass |-> "subclass"]

\* the loop over glob.glob(iteration_*/) raises AttributeError: match is None
ScanRaises(ds) == \E d \in ds : ~HasMatch(d)

ScanNumber_Lowest(ds) == CHOOSE x \in {-1} \cup {ParseOrd(d) : d \in ds} :
                            \A y \in {-1} \cup {ParseOrd(d) : d \in ds} : x <= y

\* self.number after the loop over glob.glob(iteration_*/), starting from -1
ScanNumber(ds) == SetMax({-1} \cup {ParseOrd(d) : d \in ds})

AdvanceIfClosed_CandidatesOnly(n, cands, revs) == IF Fmt(n) \in cands THEN n + 1 ELSE n

\* check for candidates and reviewed: both present, the number advances
AdvanceIfClosed(n, cands, revs) ==
    IF Fmt(n) \in cands /\ Fmt(n) \in revs THEN n + 1 ELSE n

SkipZero_ByTwo(n) == IF n = 0 THEN n + 2 ELSE n

\* if self.number == 0: self.number += 1
SkipZero(n) == IF n = 0 THEN n + 1 ELSE n

\* the number found when iteration_nr is None
FoundNumber(ds, cands, revs) == SkipZero(AdvanceIfClosed(ScanNumber(ds), cands, revs))

\* the number the constructor settles on
ChosenNumber(arg, ds, cands, revs) ==
    IF arg.given THEN arg.nr ELSE FoundNumber(ds, cands, revs)

\* the first check of the constructor: the bootstrapping folder is a directory
FolderOk == folder_isdir

CrfsuiteOk_Unchecked == TRUE

\* the second check of the constructor: the CRFsuite folder is a directory
CrfsuiteOk == crfsuite_isdir

\* the object when the constructor raised: no Iteration object exists
Failed(why, arg) ==
    [op |-> "init", st |-> "error", err |-> why, given |-> arg.given,
     number |-> -1, train |-> NoTrain, trained |-> FALSE,
     candidates |-> NoDataset, reviewed |-> NoDataset, selection |-> NoSelection,
     call |-> "none", pc |-> "idle", finished |-> "none"]

\* the object the constructor returns
Constructed(arg, n) ==
    [op |-> "init", st |-> "ok", err |-> "none", given |-> arg.given,
     number |-> n, train |-> NoTrain, trained |-> FALSE,
     candidates |-> NoDataset, reviewed |-> NoDataset, selection |-> NoSelection,
     call |-> "none", pc |-> "idle", finished |-> "none"]

WriteStatsHeader_Always(exists, rows) == <<StatsHeader>>

\* if not os.path.exists(self.stats_file): the header is written to a new file
WriteStatsHeader(exists, rows) == IF exists THEN rows ELSE <<StatsHeader>>

\* Iteration(folder, iteration_nr=arg, crfsuite_path)
Construct(arg) ==
    /\ it.pc = "idle"
    /\ IF ~FolderOk THEN
           /\ it' = Failed("folder", arg)
           /\ UNCHANGED fsVars
       ELSE IF ~CrfsuiteOk THEN
           /\ it' = Failed("crfsuite", arg)
           /\ UNCHANGED fsVars
       ELSE IF ~arg.given /\ ScanRaises(iter_dirs) THEN
           /\ it' = Failed("match", arg)
           /\ UNCHANGED fsVars
       ELSE
           LET n == ChosenNumber(arg, iter_dirs, candidates_dirs, reviewed_dirs) IN
           /\ it' = Constructed(arg, n)
           /\ iter_dirs' = iter_dirs \cup {Fmt(n)}
           /\ stats_exists' = TRUE
           /\ stats_rows' = WriteStatsHeader(stats_exists, stats_rows)
           /\ UNCHANGED <<folder_isdir, crfsuite_isdir, candidates_dirs, reviewed_dirs,
                          bin_models, candidates_html, reviewed_files, results_files,
                          cv_files>>

\* the iteration_nr arguments the model passes
IterationArgs == {NoArg} \cup {Arg(n) : n \in 0..(MaxIter + 1)}

\* before the first call: no Iteration object
NoObject ==
    [op |-> "none", st |-> "none", err |-> "none", given |-> FALSE,
     number |-> -1, train |-> NoTrain, trained |-> FALSE,
     candidates |-> NoDataset, reviewed |-> NoDataset, selection |-> NoSelection,
     call |-> "none", pc |-> "idle", finished |-> "none"]

\* directory names present before the first call: iteration_0..iteration_MaxIter,
\* iteration_01 (a second spelling of ordinal 1) and iteration_x (no ordinal)
InitNames == {Fmt(n) : n \in 0..MaxIter} \cup {<<"0", "1">>, <<"x">>}

StatsRow(n, sub) == [kind |-> "row", iteration_number |-> n, subclass |-> sub]

\* no document filter takes part in the behaviours of Iteration modelled here
NoFilter == [kind |-> "none"]

\* no part is being matched
NoPart == [op |-> "none"]

InitCtor ==
    /\ it = NoObject
    /\ fl = NoFilter
    /\ ev = NoPart
    /\ bin_models = {}
    /\ candidates_html = {}
    /\ reviewed_files = {}
    /\ results_files = {}
    /\ cv_files = {}
    /\ folder_isdir \in BOOLEAN
    /\ crfsuite_isdir \in BOOLEAN
    /\ iter_dirs \in SUBSET InitNames
    /\ candidates_dirs \in SUBSET (iter_dirs \ {<<"x">>})
    /\ reviewed_dirs \in SUBSET (iter_dirs \ {<<"x">>})
    /\ stats_exists \in BOOLEAN
    /\ stats_rows \in {<<>>, <<StatsHeader>>, <<StatsHeader, StatsRow(0, "total")>>}
    /\ stats_exists = FALSE => stats_rows = <<>>
    /\ folder_isdir = FALSE => (iter_dirs = {} /\ ~stats_exists)

NextCtor == (\E arg \in IterationArgs : Construct(arg)) /\ UNCHANGED <<fl, ev>>

SpecCtor == InitCtor /\ [][NextCtor]_vars

(***************************************************************************)
(* Claims about Iteration.__init__ (checked under SpecCtor).               *)
(***************************************************************************)
\* the step is a call of the constructor that returned an object, iteration_nr None
FoundCall == it'.op = "init" /\ it'.st = "ok" /\ ~it'.given

\* the highest ordinal among the iteration directories present
HighestOrdinal == SetMax({ParseOrd(d) : d \in {e \in iter_dirs : HasMatch(e)}})

\* iteration_n is closed: its candidates and its reviewed sub-directory exist
Closed(n) == Fmt(n) \in candidates_dirs /\ Fmt(n) \in reviewed_dirs

\* C1: resumption. When the constructor is called without iteration_nr and the
\* highest existing ordinal N >= 1 has iteration_N/candidates but not
\* iteration_N/reviewed, the number is N and no iteration_(N+1) is created.
C1_Resumption ==
    [][(FoundCall /\ iter_dirs # {} /\ HighestOrdinal >= 1
          /\ Fmt(HighestOrdinal) \in candidates_dirs
          /\ Fmt(HighestOrdinal) \notin reviewed_dirs)
       => (it'.number = HighestOrdinal /\ Fmt(HighestOrdinal + 1) \notin iter_dirs')]_vars

\* a constructor call resumed iteration_2, which has candidates and no reviewed
C1_Witness ==
    /\ it.op = "init" /\ it.st = "ok" /\ ~it.given /\ it.number = 2
    /\ Fmt(2) \in candidates_dirs /\ Fmt(2) \notin reviewed_dirs
    /\ Fmt(3) \notin iter_dirs

\* C2: advance on close. Without iteration_nr, when the highest existing
\* iteration_N has both candidates and reviewed, the number is exactly N+1 and
\* iteration_(N+1) exists after the call; otherwise, for N >= 1, it is exactly N.
C2_AdvanceOnClose ==
    [][(FoundCall /\ iter_dirs # {})
       => /\ Closed(HighestOrdinal)
               => (it'.number = HighestOrdinal + 1
                   /\ Fmt(HighestOrdinal + 1) \in iter_dirs')
          /\ (~Closed(HighestOrdinal) /\ HighestOrdinal >= 1)
               => it'.number = HighestOrdinal]_vars

\* a constructor call found iteration_2 closed and created iteration_3
C2_Witness ==
    /\ it.op = "init" /\ it.st = "ok" /\ ~it.given /\ it.number = 3
    /\ Closed(2) /\ Fmt(3) \in iter_dirs /\ Fmt(3) \notin candidates_dirs

\* C3: ordinal 0 is never a working iteration. After any constructor call that
\* returned an object, with or without iteration_nr, the number is not 0 and the
\* current folder is not iteration_0.
C3_NeverZero ==
    (it.op = "init" /\ it.st = "ok") => (it.number # 0 /\ Fmt(it.number) # <<"0">>)

\* C4: the ordinal is >= 0. After any constructor call without iteration_nr that
\* returned an object, whatever the bootstrapping folder holds, the number is
\* >= 0 and the directory made for it carries a non-negative ordinal.
C4_NonNegative ==
    (it.op = "init" /\ it.st = "ok" /\ ~it.given)
        => (it.number >= 0 /\ <<"-", "1">> \notin iter_dirs)

\* C5: fatal configuration errors leave no trace. A constructor call with the
\* bootstrapping folder or the CRFsuite folder missing raises, and no directory
\* is made and stats.csv is neither created nor changed.
C5_FatalNoTrace ==
    [][(it'.op = "init" /\ (~folder_isdir \/ ~crfsuite_isdir))
       => (it'.st = "error" /\ UNCHANGED fsVars)]_vars

\* a constructor call raised for the missing CRFsuite folder although the
\* bootstrapping folder holds iteration directories and no stats.csv
C5_Witness ==
    /\ it.op = "init" /\ it.st = "error" /\ it.err = "crfsuite"
    /\ folder_isdir /\ ~crfsuite_isdir /\ iter_dirs # {} /\ ~stats_exists

\* C30: construction is stable. When a construction without iteration_nr
\* follows a successful construction without iteration_nr, with no change of the
\* file system in between, it succeeds, yields the same iteration number and
\* creates no directory and no file - whatever the bootstrap root held at first.
C30_ConstructionStable ==
    [][(/\ it.op = "init" /\ it.st = "ok" /\ ~it.given
        /\ it'.op = "init" /\ ~it'.given)
          => /\ it'.st = "ok"
             /\ it'.number = it.number
             /\ UNCHANGED fsVars]_vars

(***************************************************************************)
(* The methods of Iteration.  A method runs either called directly on the  *)
(* object (ctx = "direct") or as the next step of before_annotation or of  *)
(* after_annotation (ctx = the name of that method).                       *)
(***************************************************************************)
\* the most documents docselection is asked for
MaxNr == 1
\* the most folds cross_validation is asked for
MaxSplit == 1

\* document ids
Docs == 1..MaxNr

\* the files a annotator leaves in a reviewed folder: "a.b-<id>.ann.json" (dash)
\* or "<id>.ann.json" (no dash)
ReviewFile == [dash : BOOLEAN, id : Docs]

\* the subclasses MentionLevelEvaluator reports
Subclasses == {"0", "1"}

\* the name of self.current_folder after "iteration_"
Cur == Fmt(it.number)

\* before_annotation and after_annotation call these methods, in this order
Steps(ctx) ==
    CASE ctx = "before_annotation" -> <<"learning", "docselection", "tagging">>
      [] ctx = "after_annotation" ->
            <<"clean_reviewed_files", "manual_review_import", "evaluation">>
      [] OTHER -> <<>>

Contexts == {"direct", "before_annotation", "after_annotation"}

StepIndex(m, ctx) == CHOOSE i \in 1..Len(Steps(ctx)) : Steps(ctx)[i] = m

\* method m may run now in context ctx
CanRun(m, ctx) ==
    /\ it.st = "ok"
    /\ IF ctx = "direct" THEN it.pc = "idle"
       ELSE /\ \E i \in 1..Len(Steps(ctx)) : Steps(ctx)[i] = m
            /\ \/ it.pc = "idle" /\ Steps(ctx)[1] = m
               \/ it.call = ctx /\ it.pc = m

\* the object after method m returned in context ctx
Returned(obj, m, ctx) ==
    IF ctx = "direct" \/ StepIndex(m, ctx) = Len(Steps(ctx)) THEN
        [obj EXCEPT !.op = m, !.err = "none", !.call = "none", !.pc = "idle",
                    !.finished = IF ctx = "direct" THEN "none" ELSE ctx]
    ELSE
        [obj EXCEPT !.op = m, !.err = "none", !.call = ctx,
                    !.pc = Steps(ctx)[StepIndex(m, ctx) + 1], !.finished = "none"]

\* the object after method m raised: the exception ends the enclosing call too
Raised(obj, m, why) ==
    [obj EXCEPT !.op = m, !.err = why, !.call = "none", !.pc = "idle",
                !.finished = "none"]

RECURSIVE Range(_, _)
\* list(range(a, b))
Range(a, b) == IF a >= b THEN <<>> ELSE <<a>> \o Range(a + 1, b)

ReadLearningData_OffByOne(n) == <<0>> \o Range(1, n + 1)

\* read_learning_data: the sources merged into self.train, in order;
\* 0 is iteration_0/base, i >= 1 is iteration_i (candidates/html + reviewed)
ReadLearningData(n) == <<0>> \o (IF n > 1 THEN Range(1, n) ELSE <<>>)

\* os.path.exists(self.bin_model)
BinModelExists == \E m \in bin_models : m.dir = Cur

NeedsTraining_Always == TRUE

\* learning trains: if not os.path.exists(self.bin_model)
NeedsTraining == ~BinModelExists

\* learning: read_learning_data, then preprocessing and crf_learning unless
\* the bin_model of the current iteration exists
Learning(ctx) ==
    /\ CanRun("learning", ctx)
    /\ LET tr == ReadLearningData(it.number) IN
       IF NeedsTraining THEN
           /\ bin_models' = {m \in bin_models : m.dir # Cur}
                              \cup {[dir |-> Cur, train |-> tr]}
           /\ it' = Returned([it EXCEPT !.train = tr, !.trained = TRUE], "learning", ctx)
       ELSE
           /\ bin_models' = bin_models
           /\ it' = Returned([it EXCEPT !.train = tr, !.trained = FALSE], "learning", ctx)
    /\ UNCHANGED <<folder_isdir, crfsuite_isdir, iter_dirs, candidates_dirs, reviewed_dirs,
                   candidates_html, reviewed_files, results_files, cv_files,
                   stats_exists, stats_rows>>

\* for pmid, document in dsp.execute(): ... if next(c) == nr: break -- the number
\* of pairs pulled from a pipeline that would yield stream
Pulled(nr, stream) == IF nr \in 1..Len(stream) THEN nr ELSE Len(stream)

\* docselection(nr, just_caching) over a pipeline that would yield the pairs of
\* stream.  Without just_caching the filters of the pipeline are constructed
\* first, and HighRecallRegexDocumentFilter(crfsuite_path=...) is called with a
\* keyword its constructor does not have: TypeError.  before_annotation calls
\* docselection(nr=nr_new_docs), without just_caching.
Docselection(ctx, nr, just_caching, stream) ==
    /\ CanRun("docselection", ctx)
    /\ ctx = "before_annotation" => ~just_caching
    /\ IF ~just_caching THEN
           it' = Raised([it EXCEPT !.selection =
                            [nr |-> nr, just_caching |-> just_caching,
                             stream |-> stream, pulled |-> 0]],
                        "docselection", "TypeError")
       ELSE
           LET pulled == Pulled(nr, stream) IN
           it' = Returned([it EXCEPT !.candidates =
                              [isset |-> TRUE, docs |-> {stream[i] : i \in 1..pulled},
                               gold |-> FALSE, pred |-> FALSE],
                           !.selection =
                              [nr |-> nr, just_caching |-> just_caching,
                               stream |-> stream, pulled |-> pulled]],
                          "docselection", ctx)
    /\ UNCHANGED fsVars

\* tagging: tag self.candidates with the bin_model, export them to
\* candidates_folder (html and annjson)
Tagging(ctx) ==
    /\ CanRun("tagging", ctx)
    /\ IF ~it.candidates.isset THEN
           /\ it' = Raised(it, "tagging", "AttributeError")
           /\ UNCHANGED fsVars
       ELSE IF ~BinModelExists THEN
           /\ it' = Raised(it, "tagging", "FileNotFoundError")
           /\ UNCHANGED fsVars
       ELSE
           /\ it' = Returned([it EXCEPT !.candidates.pred = TRUE], "tagging", ctx)
           /\ candidates_dirs' = candidates_dirs \cup {Cur}
           /\ candidates_html' = candidates_html \cup {<<Cur, d>> : d \in it.candidates.docs}
           /\ UNCHANGED <<folder_isdir, crfsuite_isdir, iter_dirs, reviewed_dirs, bin_models,
                          reviewed_files, results_files, cv_files, stats_exists, stats_rows>>

\* the annotator (outside the program) saves files into the reviewed folder of an
\* iteration that has candidates
Review(d, F) ==
    /\ it.pc = "idle"
    /\ d \in candidates_dirs
    /\ reviewed_dirs' = reviewed_dirs \cup {d}
    /\ reviewed_files' = reviewed_files \cup {<<d, f>> : f \in F}
    /\ it' = [it EXCEPT !.op = "review", !.finished = "none"]
    /\ UNCHANGED <<folder_isdir, crfsuite_isdir, iter_dirs, candidates_dirs, bin_models,
                   candidates_html, results_files, cv_files, stats_exists, stats_rows>>

\* re.sub(r'.*-(\d+)\..*', r'\1', filename): the id after the last dash, or
\* the whole file name (no document id, 0 here) when the pattern does not match
FileDocId(f) == IF f.dash THEN f.id ELSE 0

\* HTMLReader(candidates_folder/html).read().documents.keys()
CandidatesOnDisk == {d \in Docs : <<Cur, d>> \in candidates_html}

\* clean_reviewed_files: remove the reviewed files of non-candidates
CleanReviewedFiles(ctx) ==
    /\ CanRun("clean_reviewed_files", ctx)
    /\ reviewed_files' = {p \in reviewed_files :
                             p[1] # Cur \/ FileDocId(p[2]) \in CandidatesOnDisk}
    /\ it' = Returned(it, "clean_reviewed_files", ctx)
    /\ UNCHANGED <<folder_isdir, crfsuite_isdir, iter_dirs, candidates_dirs, reviewed_dirs,
                   bin_models, candidates_html, results_files, cv_files,
                   stats_exists, stats_rows>>

\* manual_review_import: self.reviewed = the candidates on disk, with the
\* predicted annotations of candidates/annjson and the gold ones of reviewed/
ManualReviewImport(ctx) ==
    /\ CanRun("manual_review_import", ctx)
    /\ \E g \in BOOLEAN, p \in BOOLEAN :
          /\ p => CandidatesOnDisk # {}
          /\ g => (CandidatesOnDisk # {} /\ \E q \in reviewed_files : q[1] = Cur)
          /\ it' = Returned([it EXCEPT !.reviewed =
                                 [isset |-> TRUE, docs |-> CandidatesOnDisk,
                                  gold |-> g, pred |-> p]],
                            "manual_review_import", ctx)
    /\ UNCHANGED fsVars

\* evaluation: match the gold and the predicted entities of self.reviewed and
\* write batch_results.txt; max() of no annotation at all raises ValueError
Evaluation(ctx) ==
    /\ CanRun("evaluation", ctx)
    /\ IF ~it.reviewed.isset THEN
           /\ it' = Raised(it, "evaluation", "AttributeError")
           /\ UNCHANGED fsVars
       ELSE IF ~it.reviewed.gold \/ ~it.reviewed.pred THEN
           /\ it' = Raised(it, "evaluation", "ValueError")
           /\ UNCHANGED fsVars
       ELSE
           /\ it' = Returned(it, "evaluation", ctx)
           /\ results_files' = results_files \cup {Cur}
           /\ UNCHANGED <<folder_isdir, crfsuite_isdir, iter_dirs, candidates_dirs,
                          reviewed_dirs, bin_models, candidates_html, reviewed_files,
                          cv_files, stats_exists, stats_rows>>

\* the subclasses of S in the order their rows are written
SubclassOrder == <<"0", "1">>
InOrder(S) == SelectSeq(SubclassOrder, LAMBDA x : x \in S)

\* a row of cross_validation.csv: its first three columns, and the per-fold
\* results (exact or overlapping) its measures are computed from
CvRow(kind, fold, strictness, subclass, from) ==
    [kind |-> kind, fold |-> fold, strictness |-> strictness, subclass |-> subclass,
     from |-> from]

CvHeader == CvRow("header", 0, "strictness", "sublcass", "none")

\* rows of one kind and strictness: one per subclass of S, then the total row
CvBlock(kind, fold, strictness, S, from) ==
    [i \in 1..Len(InOrder(S)) |-> CvRow(kind, fold, strictness, InOrder(S)[i], from)]
        \o <<CvRow(kind, fold, strictness, "total", from)>>

RECURSIVE CvFoldRows(_, _, _)
\* the rows appended for the folds fold..split-1
CvFoldRows(fold, split, foldSubs) ==
    IF fold >= split THEN <<>>
    ELSE CvBlock("fold", fold, "exact", foldSubs[fold], "exact")
           \o CvBlock("fold", fold, "overlapping", foldSubs[fold], "overlapping")
           \o CvFoldRows(fold + 1, split, foldSubs)

\* the keys of subclass_averages_exact after the folds
SeenSubclasses(split, foldSubs) == UNION {foldSubs[f] : f \in 0..(split - 1)}

CvAggregateRows_AveragesOnly(S) ==
    CvBlock("average", 0, "exact", S, "exact")
      \o CvBlock("average", 0, "overlapping", S, "overlapping")

\* the rows written after the folds: the averages, then the sums of folds; the
\* overlapping sum_of_folds rows are computed from the exact per-fold results
CvAggregateRows(S) ==
    CvBlock("average", 0, "exact", S, "exact")
      \o CvBlock("average", 0, "overlapping", S, "overlapping")
      \o CvBlock("sum_of_folds", 0, "exact", S, "exact")
      \o CvBlock("sum_of_folds", 0, "overlapping", S, "exact")

StatsBlock_NoTotal(n, S) == [i \in 1..Len(InOrder(S)) |-> StatsRow(n, InOrder(S)[i])]

\* the rows cross_validation appends to stats.csv: one per subclass, then total
StatsBlock(n, S) ==
    [i \in 1..Len(InOrder(S)) |-> StatsRow(n, InOrder(S)[i])] \o <<StatsRow(n, "total")>>

\* cross_validation(split): foldSubs[f] are the subclasses the evaluator
\* reports for fold f
CrossValidation(split, foldSubs) ==
    /\ CanRun("cross_validation", "direct")
    /\ Len(stats_rows) <= MaxStatsRows
    /\ IF Fmt(it.number - 1) \notin iter_dirs THEN
           /\ it' = Raised(it, "cross_validation", "FileNotFoundError")
           /\ UNCHANGED fsVars
       ELSE
           LET S == SeenSubclasses(split, foldSubs)
               last == Fmt(it.number - 1) IN
           /\ it' = Returned(it, "cross_validation", "direct")
           /\ cv_files' = {c \in cv_files : c.dir # last}
                            \cup {[dir |-> last,
                                   rows |-> <<CvHeader>> \o CvFoldRows(0, split, foldSubs)
                                              \o CvAggregateRows(S)]}
           /\ stats_exists' = TRUE
           /\ stats_rows' = stats_rows \o StatsBlock(it.number - 1, S)
           /\ UNCHANGED <<folder_isdir, crfsuite_isdir, iter_dirs, candidates_dirs,
                          reviewed_dirs, bin_models, candidates_html, reviewed_files,
                          results_files>>

(***************************************************************************)
(* The life of a bootstrapping folder: constructor calls, the methods, and *)
(* the annotator.                                                           *)
(***************************************************************************)
\* the constructor, while the number stays within the model's bound
BoundedConstruct(arg) ==
    /\ ChosenNumber(arg, iter_dirs, candidates_dirs, reviewed_dirs) <= MaxIter + 1
    /\ Construct(arg)

\* the iteration_nr arguments of a run: None, or an iteration >= 1 that exists
RunArgs == {NoArg} \cup {Arg(n) : n \in {k \in 1..(MaxIter + 1) : Fmt(k) \in iter_dirs}}

\* the bootstrapping folder before the first call: iteration_0 (the base corpus)
\* and iterations 1..k, all closed but possibly the last one
InitRun ==
    /\ it = NoObject
    /\ fl = NoFilter
    /\ ev = NoPart
    /\ folder_isdir = TRUE
    /\ crfsuite_isdir = TRUE
    /\ \E k \in 0..MaxIter :
          /\ iter_dirs = {Fmt(n) : n \in 0..k}
          /\ \E c \in BOOLEAN, r \in BOOLEAN, m \in BOOLEAN :
                /\ (k = 0 \/ r) => c
                /\ k = 0 => (c /\ r /\ ~m)
                /\ candidates_dirs = {Fmt(n) : n \in 1..(k - 1)}
                                       \cup (IF c /\ k > 0 THEN {Fmt(k)} ELSE {})
                /\ reviewed_dirs = {Fmt(n) : n \in 1..(k - 1)}
                                     \cup (IF r /\ k > 0 THEN {Fmt(k)} ELSE {})
                /\ bin_models = {[dir |-> Fmt(n), train |-> ReadLearningData(n)] :
                                    n \in 1..(k - 1)}
                                  \cup (IF m THEN {[dir |-> Fmt(k), train |-> <<0>>]} ELSE {})
    /\ candidates_html = {}
    /\ reviewed_files = {}
    /\ results_files = {}
    /\ cv_files = {}
    /\ stats_exists = FALSE
    /\ stats_rows = <<>>

\* constructor calls, learning, selection and tagging, and the annotator
NextLearn ==
    /\ UNCHANGED <<fl, ev>>
    /\ \/ \E arg \in RunArgs : BoundedConstruct(arg)
       \/ \E ctx \in Contexts : Learning(ctx)
       \/ \E ctx \in Contexts, nr \in 1..MaxNr, just_caching \in BOOLEAN :
             Docselection(ctx, nr, just_caching, Range(1, nr + 1))
       \/ \E ctx \in Contexts : Tagging(ctx)
       \/ \E d \in iter_dirs : Review(d, {})

SpecLearn == InitRun /\ [][NextLearn]_vars

(***************************************************************************)
(* Claims about learning (checked under SpecLearn).                        *)
(***************************************************************************)
\* C6: idempotent re-entry of learning. learning trains (preprocessing and
\* crf_learning) if and only if the current iteration has no bin_model; with a
\* bin_model present it leaves the bin_model files unchanged; after any
\* learning call the bin_model exists, and a learning call that directly
\* follows a learning call does not train.
C6_IdempotentLearning ==
    [][it'.op = "learning"
       => /\ it'.trained <=> ~(\E m \in bin_models : m.dir = Fmt(it.number))
          /\ (\E m \in bin_models : m.dir = Fmt(it.number)) => bin_models' = bin_models
          /\ \E m \in bin_models' : m.dir = Fmt(it'.number)
          /\ it.op = "learning" => ~it'.trained]_vars

\* learning found a bin_model that was trained on another training set, did
\* not train and left it as it was
C6_Witness ==
    /\ it.op = "learning" /\ ~it.trained
    /\ \E m \in bin_models : m.dir = Cur /\ m.train # it.train

\* C7: cumulative training set. For number n, the training set learning loads
\* is made of the iteration_0 base and the iterations 1..n-1, each once; the
\* iteration n and the iterations above it contribute nothing.
C7_CumulativeTrain ==
    it.op = "learning"
        => LET S == {it.train[i] : i \in 1..Len(it.train)} IN
           /\ S = {0} \cup 1..(it.number - 1)
           /\ Len(it.train) = Cardinality(S)

\* learning ran for number 2 while iteration_2 is closed and iteration_3 exists
C7_Witness ==
    /\ it.op = "learning" /\ it.number = 2 /\ Len(it.train) = 2
    /\ Closed(2) /\ Fmt(3) \in iter_dirs

\* C27: lifecycle step order. Inside before_annotation the steps run in the order
\* learning, docselection, tagging: a step of the call runs only after the step
\* before it has finished without an error, the call starts with learning, and
\* once learning has finished the call performs docselection and goes on to
\* tagging.
C27_StepOrder ==
    [][/\ (it.call # "before_annotation" /\ it'.call = "before_annotation")
            => (it'.op = "learning" /\ it'.err = "none" /\ it'.pc = "docselection")
       /\ (it.call = "before_annotation" /\ it' # it)
            => /\ it.err = "none"
               /\ \/ it.op = "learning" /\ it'.op = "docselection"
                  \/ it.op = "docselection" /\ it'.op = "tagging"
       /\ (it.call = "before_annotation" /\ it'.op = "docselection")
            => (it'.err = "none" /\ it'.call = "before_annotation" /\ it'.pc = "tagging")
      ]_vars

\* the same for after_annotation: clean_reviewed_files, manual_review_import,
\* evaluation, each after the one before it has finished without an error
StepOrderAfterAnnotation ==
    [][/\ (it.call # "after_annotation" /\ it'.call = "after_annotation")
            => (it'.op = "clean_reviewed_files" /\ it'.err = "none")
       /\ (it.call = "after_annotation" /\ it' # it)
            => /\ it.err = "none"
               /\ \/ it.op = "clean_reviewed_files" /\ it'.op = "manual_review_import"
                  \/ it.op = "manual_review_import" /\ it'.op = "evaluation"
       /\ (it.finished # "after_annotation" /\ it'.finished = "after_annotation")
            => (it.call = "after_annotation" /\ it'.op = "evaluation" /\ it'.err = "none")
      ]_vars

(***************************************************************************)
(* A run from a fresh bootstrap root: constructions without iteration_nr,  *)
(* and the steps that fill the candidates and the reviewed folder of the   *)
(* current iteration.                                                      *)
(***************************************************************************)
\* the root holds iteration_0 (the base corpus) and nothing else
InitFresh ==
    /\ it = NoObject
    /\ fl = NoFilter
    /\ ev = NoPart
    /\ folder_isdir = TRUE
    /\ crfsuite_isdir = TRUE
    /\ iter_dirs = {Fmt(0)}
    /\ candidates_dirs = {} /\ reviewed_dirs = {}
    /\ bin_models = {} /\ candidates_html = {} /\ reviewed_files = {}
    /\ results_files = {} /\ cv_files = {}
    /\ stats_exists = FALSE /\ stats_rows = <<>>

\* the annotator works on the current iteration only
NextFresh ==
    /\ UNCHANGED <<fl, ev>>
    /\ \/ BoundedConstruct(NoArg)
       \/ Learning("direct")
       \/ \E nr \in 1..MaxNr : Docselection("direct", nr, TRUE, Range(1, nr + 1))
       \/ Tagging("direct")
       \/ it.st = "ok" /\ Review(Cur, {})

SpecFresh == InitFresh /\ [][NextFresh]_vars

\* iteration_<d> has both its candidates and its reviewed folder
BothFolders(d) == d \in iter_dirs /\ d \in candidates_dirs /\ d \in reviewed_dirs

\* C29: closed-prefix invariant. From a root that holds only iteration_0, under
\* constructions without iteration_nr and steps that fill the candidates and then
\* the reviewed folder of the current iteration, every iteration from 1 to
\* number-1 has both its candidates and its reviewed folder, and at most one
\* iteration with ordinal >= 1 is not closed.
C29_ClosedPrefix ==
    /\ it.st = "ok" => \A n \in 1..(it.number - 1) : BothFolders(Fmt(n))
    /\ Cardinality({d \in iter_dirs : d # Fmt(0) /\ ~BothFolders(d)}) <= 1

\* the controller stands at iteration 2 or later, so that read_learning_data has
\* an earlier iteration to read
C29_Witness ==
    /\ it.st = "ok" /\ it.op = "learning" /\ it.err = "none"
    /\ it.number >= 2
    /\ Len(it.train) >= 2

(***************************************************************************)
(* A run on a root that holds the iterations lo..hi, with any of their     *)
(* candidates and reviewed folders present.                                *)
(***************************************************************************)
InitRange ==
    /\ it = NoObject
    /\ fl = NoFilter
    /\ ev = NoPart
    /\ folder_isdir = TRUE
    /\ crfsuite_isdir = TRUE
    /\ \E lo \in 0..MaxIter :
          \E hi \in lo..MaxIter :
             /\ iter_dirs = {Fmt(n) : n \in lo..hi}
             /\ candidates_dirs \in SUBSET {Fmt(n) : n \in lo..hi}
             /\ reviewed_dirs \in SUBSET {Fmt(n) : n \in lo..hi}
    /\ bin_models = {} /\ candidates_html = {} /\ reviewed_files = {}
    /\ results_files = {} /\ cv_files = {}
    /\ stats_exists = FALSE /\ stats_rows = <<>>

\* constructions without iteration_nr; tagging creates the candidates folder of
\* the current iteration, the annotator the reviewed folder of an iteration
NextRange ==
    /\ UNCHANGED <<fl, ev>>
    /\ \/ BoundedConstruct(NoArg)
       \/ Learning("direct")
       \/ \E nr \in 1..MaxNr : Docselection("direct", nr, TRUE, Range(1, nr + 1))
       \/ Tagging("direct")
       \/ \E d \in iter_dirs : Review(d, {})

SpecRange == InitRange /\ [][NextRange]_vars

\* C31: iteration numbers are monotone and gap-free. Over constructions without
\* iteration_nr, interleaved with the creation of candidates and reviewed
\* folders, a construction succeeds with a number that is the number of the
\* construction before it or that number plus 1; no iteration directory
\* disappears; and the ordinals of the iteration directories form a contiguous
\* range that starts at the lowest ordinal there was at first.
C31_MonotoneGapFree ==
    [][/\ (it.st = "ok" /\ it'.op = "init")
            => /\ it'.st = "ok"
               /\ it.number <= it'.number
               /\ it'.number <= it.number + 1
       /\ iter_dirs \subseteq iter_dirs'
       /\ \A e \in iter_dirs' : \E d \in iter_dirs : ParseOrd(d) <= ParseOrd(e)
       /\ \A d, e \in iter_dirs' :
             \A n \in ParseOrd(d)..ParseOrd(e) : Fmt(n) \in iter_dirs'
      ]_vars

\* a construction at a number whose predecessor was trained by an earlier
\* controller of this run: the number has gone up
C31_Witness ==
    /\ it.op = "init" /\ it.st = "ok" /\ it.number >= 2
    /\ \E m \in bin_models : m.dir = Fmt(it.number - 1)
    /\ Fmt(it.number) \in iter_dirs

(***************************************************************************)
(* Selection: docselection over what the pipeline would yield.             *)
(***************************************************************************)
\* what DocumentSelectorPipeline.execute() would yield if pulled to its end: up
\* to MaxNr + 1 pairs with distinct ids
Streams ==
    UNION {{st \in [1..n -> 1..(MaxNr + 1)] : \A i, j \in 1..n : st[i] = st[j] => i = j} :
              n \in 0..(MaxNr + 1)}

\* constructor calls, learning and selection
NextSelect ==
    /\ UNCHANGED <<fl, ev>>
    /\ \/ \E arg \in RunArgs : BoundedConstruct(arg)
       \/ \E ctx \in Contexts : Learning(ctx)
       \/ \E ctx \in Contexts, nr \in 1..MaxNr, just_caching \in BOOLEAN, stream \in Streams :
             Docselection(ctx, nr, just_caching, stream)

SpecSelect == InitRun /\ [][NextSelect]_vars

\* C19: selection early-stop. A call docselection(nr) with nr >= 1 ends without an
\* error; over a pipeline that can yield at least nr documents it leaves a
\* candidate dataset of exactly nr distinct documents and has pulled exactly nr
\* pairs; over a pipeline that ends earlier it leaves fewer than nr candidates.
C19_SelectionEarlyStop ==
    (it.op = "docselection" /\ ~it.selection.just_caching /\ it.selection.nr >= 1)
        => /\ it.err = "none"
           /\ it.candidates.isset
           /\ Len(it.selection.stream) >= it.selection.nr
                 => /\ Cardinality(it.candidates.docs) = it.selection.nr
                    /\ it.selection.pulled = it.selection.nr
           /\ Len(it.selection.stream) < it.selection.nr
                 => Cardinality(it.candidates.docs) < it.selection.nr

(***************************************************************************)
(* The steps after the review, and cross_validation.                       *)
(***************************************************************************)
\* the bootstrapping folder before the first call: the base corpus and
\* iteration_1 with exported candidates, not yet reviewed
InitEval ==
    /\ it = NoObject
    /\ fl = NoFilter
    /\ ev = NoPart
    /\ folder_isdir = TRUE
    /\ crfsuite_isdir = TRUE
    /\ iter_dirs = {Fmt(0), Fmt(1)}
    /\ candidates_dirs = {Fmt(1)}
    /\ reviewed_dirs = {}
    /\ bin_models = {[dir |-> Fmt(1), train |-> ReadLearningData(1)]}
    /\ \E D \in SUBSET Docs : candidates_html = {<<Fmt(1), d>> : d \in D}
    /\ reviewed_files = {}
    /\ results_files = {}
    /\ cv_files = {}
    /\ stats_exists = FALSE
    /\ stats_rows = <<>>

\* constructor calls, the annotator, the steps of after_annotation, and
\* cross_validation
NextEval ==
    /\ UNCHANGED <<fl, ev>>
    /\ \/ \E arg \in RunArgs : BoundedConstruct(arg)
       \/ \E d \in iter_dirs \ reviewed_dirs, F \in SUBSET ReviewFile : Review(d, F)
       \/ \E ctx \in Contexts : CleanReviewedFiles(ctx)
       \/ \E ctx \in Contexts : ManualReviewImport(ctx)
       \/ \E ctx \in Contexts : Evaluation(ctx)
       \/ \E split \in 1..MaxSplit, S \in SUBSET Subclasses :
             CrossValidation(split, [f \in 0..(split - 1) |-> S])

SpecEval == InitEval /\ [][NextEval]_vars

\* stats.csv holds the total row of iteration n
HasTotalRow(n) == \E i \in 1..Len(stats_rows) : stats_rows[i] = StatsRow(n, "total")

TotalRows(rows, kind, fold, strictness) ==
    {i \in 1..Len(rows) : /\ rows[i].kind = kind /\ rows[i].fold = fold
                          /\ rows[i].strictness = strictness
                          /\ rows[i].subclass = "total"}

C28_StatsAppendOnly ==
    [][/\ stats_exists => stats_exists'
       /\ Len(stats_rows') >= Len(stats_rows)
       /\ SubSeq(stats_rows', 1, Len(stats_rows)) = stats_rows
       /\ (it'.op = "init" /\ it'.st = "ok" /\ it' # it)
            => stats_rows' = (IF stats_exists THEN stats_rows ELSE <<StatsHeader>>)
       /\ (it'.op = "cross_validation" /\ it'.err = "none" /\ stats_exists)
            => Len(stats_rows') > Len(stats_rows)
      ]_vars

\* a controller was constructed on a root whose stats.csv holds rows of a
\* cross-validation after the header
C28_Witness ==
    /\ it.op = "init" /\ it.st = "ok"
    /\ stats_exists /\ Len(stats_rows) > 1
    /\ stats_rows[1] = StatsHeader

C18_NoRaiseOnEmpty ==
    (it.op = "evaluation" /\ it.reviewed.isset /\ (~it.reviewed.gold \/ ~it.reviewed.pred))
        => (it.err = "none" /\ Cur \in results_files)

(***************************************************************************)
(* Document filters (document_filters.py).  A filter is a generator over   *)
(* an input sequence of (id, document) pairs.  fl holds the filter object  *)
(* (its cache, its keyword generator, its answer tally) and one run of     *)
(* filter(): the input, how many pairs were pulled from it, the pairs      *)
(* yielded so far, and whether the generator was ended by a stop answer.   *)
(* One step of a run handles one input pair.                               *)
(***************************************************************************)

\* longest input sequence handed to a filter
MaxInput == 3

\* the keywords the KeywordsDocumentFilter is constructed with
Keywords == <<"mutat", "snp">>

\* a part of a document, as far as keyword search goes: the keywords found in it
PartTexts == SUBSET {Keywords[k] : k \in DOMAIN Keywords}

\* the parts of a document: none, a title, or a title and an abstract
DocParts == {<<>>} \cup {<<t>> : t \in PartTexts} \cup {<<t, a>> : t, a \in PartTexts}

\* QuickNalaFilter(threshold=1)
threshold == 1

\* a predicted annotation: its subclass and its confidence
Predicted == [subclass : {0, 1}, confidence : {threshold, threshold + 1}]

\* the annotations the model predicts in a document
DocPredictions == {<<>>} \cup {<<a>> : a \in Predicted} \cup {<<a, b>> : a, b \in Predicted}

PlainDoc(id) == [id |-> id, parts |-> <<>>, predicted |-> <<>>]

\* what the user may type at a prompt
RawAnswers == {"Y", "no", "s", "stop", "maybe"}

\* str.lower() on the answers above
Lower(a) == IF a = "Y" THEN "y" ELSE a

\* ManualStatsDocumentFilter(yes_answers=["Y"])
YesAnswersArg == <<"Y">>

yes_answers == {Lower(YesAnswersArg[k]) : k \in DOMAIN YesAnswersArg}

EmptyCache == [id \in {} |-> FALSE]

CachePut(cache, id, v) == [x \in (DOMAIN cache) \cup {id} |-> IF x = id THEN v ELSE cache[x]]

\* Counter({s: 0 for s in yes_answers + ['no']})
NewCounter == [a \in yes_answers \cup {"no"} |-> 0]

CounterUpdate_Twice(counter, a) == [counter EXCEPT ![a] = @ + 2]

\* Counter.update([answer])
CounterUpdate(counter, a) == [counter EXCEPT ![a] = @ + 1]

\* a filter object of the given kind and a fresh call of filter(input); done
\* lists the calls of filter() on this object that have ended: what each yielded,
\* how many pairs it pulled, and the cache it left
NewFilter(kind, input, cache) ==
    [kind |-> kind, input |-> input, pos |-> 0, out |-> <<>>, stopped |-> FALSE,
     cache |-> cache, keywords |-> 1, answers |-> EmptyCache, counter |-> NewCounter,
     prompted |-> FALSE, answer |-> "none", done |-> <<>>]

\* the pair the generator pulls next from its input
NextDoc == fl.input[fl.pos + 1]

\* the generator is suspended in its for loop with input left
Running(kind) ==
    /\ fl.kind = kind
    /\ ~fl.stopped
    /\ fl.pos < Len(fl.input)

\* yield pmid, doc: the run hands the pair to its consumer
Yield_Twice(out, doc) == out \o <<doc.id, doc.id>>

Yield(out, doc) == Append(out, doc.id)

\* StubDocumentFilter.filter, one pair
StubStep ==
    /\ Running("stub")
    /\ fl' = [fl EXCEPT !.pos = @ + 1, !.out = Yield(@, NextDoc),
                        !.prompted = FALSE, !.answer = "none"]
    /\ UNCHANGED <<fsVars, it, ev>>

SetMin(S) == CHOOSE x \in S : \A y \in S : x <= y

\* most calls of filter() on one filter object
MaxRuns == 2

\* the generator has ended: its input is used up or a stop answer ended it
Ended == fl.stopped \/ fl.pos = Len(fl.input)

\* filter(input) is called again on the same filter object, after the earlier
\* call has ended: the locals of the generator are new, the object is kept
FilterAgain ==
    /\ fl.kind \in {"keywords", "manual", "manual_stats"}
    /\ Ended
    /\ Len(fl.done) + 1 < MaxRuns
    /\ fl' = [fl EXCEPT !.pos = 0, !.out = <<>>, !.stopped = FALSE,
                        !.prompted = FALSE, !.answer = "none",
                        !.done = Append(@, [out |-> fl.out, pos |-> fl.pos,
                                            cache |-> fl.cache])]
    /\ UNCHANGED <<fsVars, it, ev>>

\* any(any(keyword.search(part.text) for keyword in self.keywords) for part in parts):
\* self.keywords is one generator, made in __init__ and advanced by every search;
\* k is the keyword it hands out next.  The result is whether a keyword was found
\* and where the generator is left.
RECURSIVE KeywordsScan(_, _, _)
KeywordsScan(parts, i, k) ==
    IF i > Len(parts) THEN [found |-> FALSE, keywords |-> k]
    ELSE LET hits == {j \in k..Len(Keywords) : Keywords[j] \in parts[i]}
         IN  IF hits # {} THEN [found |-> TRUE, keywords |-> SetMin(hits) + 1]
             ELSE KeywordsScan(parts, i + 1, Len(Keywords) + 1)

\* KeywordsDocumentFilter.filter, one pair
KeywordsStep ==
    /\ Running("keywords")
    /\ LET scan == KeywordsScan(NextDoc.parts, 1, fl.keywords)
       IN  fl' = [fl EXCEPT !.pos = @ + 1, !.keywords = scan.keywords,
                            !.out = IF scan.found THEN Yield(@, NextDoc) ELSE @,
                            !.prompted = FALSE, !.answer = "none"]
    /\ UNCHANGED <<fsVars, it, ev>>

InCache_Never(cache, id) == FALSE

\* pmid in self.cache
InCache(cache, id) == id \in DOMAIN cache

ManualStops_Never(answer) == FALSE

\* if answer.lower() == 's': break
ManualStops(answer) == Lower(answer) = "s"

\* ManualDocumentFilter.filter, one pair; answer is what the user types if asked
ManualStep(answer) ==
    /\ Running("manual")
    /\ LET doc == NextDoc
       IN  IF ~InCache(fl.cache, doc.id)
           THEN LET cache == CachePut(fl.cache, doc.id, Lower(answer) \in {"yes", "y"})
                IN  fl' = [fl EXCEPT !.pos = @ + 1, !.cache = cache,
                                     !.stopped = ManualStops(answer),
                                     !.out = IF ~ManualStops(answer) /\ cache[doc.id]
                                             THEN Yield(@, doc) ELSE @,
                                     !.prompted = TRUE, !.answer = answer]
           ELSE /\ answer = "no"
                /\ fl' = [fl EXCEPT !.pos = @ + 1,
                                    !.out = IF fl.cache[doc.id] THEN Yield(@, doc) ELSE @,
                                    !.prompted = FALSE, !.answer = "none"]
    /\ UNCHANGED <<fsVars, it, ev>>

\* ManualStatsDocumentFilter.filter, one prompt of one pair (or none if cached)
ManualStatsStep(raw) ==
    /\ Running("manual_stats")
    /\ LET doc == NextDoc
           answer == Lower(raw)
       IN  IF ~InCache(fl.cache, doc.id)
           THEN IF answer = "stop"
                THEN fl' = [fl EXCEPT !.pos = @ + 1, !.stopped = TRUE,
                                      !.prompted = TRUE, !.answer = raw]
                ELSE IF answer \in yes_answers \/ answer = "no"
                THEN LET cache == CachePut(fl.cache, doc.id, answer \in yes_answers)
                     IN  fl' = [fl EXCEPT !.pos = @ + 1, !.cache = cache,
                                          !.answers = CachePut(@, doc.id, answer),
                                          !.counter = CounterUpdate(@, answer),
                                          !.out = IF cache[doc.id] THEN Yield(@, doc) ELSE @,
                                          !.prompted = TRUE, !.answer = raw]
                ELSE \* while True: the same pair is asked about again
                     fl' = [fl EXCEPT !.prompted = TRUE, !.answer = raw]
           ELSE /\ raw = "no"
                /\ fl' = [fl EXCEPT !.pos = @ + 1,
                                    !.out = IF fl.cache[doc.id] THEN Yield(@, doc) ELSE @,
                                    !.prompted = FALSE, !.answer = "none"]
    /\ UNCHANGED <<fsVars, it, ev>>

\* [(ann.text, ann.subclass, ann.confidence) for ann in part.predicted_annotations
\*  if ann.subclass != 0 and ann.confidence <= self.threshold]
NlMentions(doc) ==
    SelectSeq(doc.predicted, LAMBDA ann : ann.subclass # 0 /\ ann.confidence <= threshold)

\* QuickNalaFilter.filter, one pair
QuickNalaStep ==
    /\ Running("quick_nala")
    /\ fl' = [fl EXCEPT !.pos = @ + 1,
                        !.out = IF Len(NlMentions(NextDoc)) > 0 THEN Yield(@, NextDoc) ELSE @,
                        !.prompted = FALSE, !.answer = "none"]
    /\ UNCHANGED <<fsVars, it, ev>>

\* the ids an input may carry
Pmids == 1..MaxInput

\* an input of the filters that read only the id: any ids, repeated or not
PlainInput(ids) == [i \in DOMAIN ids |-> PlainDoc(ids[i])]

\* what Cacheable loads when the filter is constructed: decisions of earlier sessions
Caches == UNION {[D -> BOOLEAN] : D \in SUBSET Pmids}

\* an input of the keyword filter: documents with distinct ids and the given parts
KeywordsInput(ps) == [i \in DOMAIN ps |-> [id |-> i, parts |-> ps[i], predicted |-> <<>>]]

\* an input of the quick filter: documents with distinct ids and the given predictions
QuickNalaInput(as) == [i \in DOMAIN as |-> [id |-> i, parts |-> <<>>, predicted |-> as[i]]]

InitFilter ==
    /\ it = NoObject
    /\ ev = NoPart
    /\ folder_isdir = TRUE /\ crfsuite_isdir = TRUE
    /\ iter_dirs = {} /\ candidates_dirs = {} /\ reviewed_dirs = {}
    /\ bin_models = {} /\ candidates_html = {} /\ reviewed_files = {}
    /\ results_files = {} /\ cv_files = {}
    /\ stats_exists = FALSE /\ stats_rows = <<>>
    /\ \E n \in 0..MaxInput :
          \/ \E ids \in [1..n -> Pmids] : fl = NewFilter("stub", PlainInput(ids), EmptyCache)
          \/ \E ps \in [1..n -> DocParts] :
                fl = NewFilter("keywords", KeywordsInput(ps), EmptyCache)
          \/ \E ids \in [1..n -> Pmids], cache \in Caches :
                fl = NewFilter("manual", PlainInput(ids), cache)
          \/ \E ids \in [1..n -> Pmids], cache \in Caches :
                fl = NewFilter("manual_stats", PlainInput(ids), cache)
          \/ \E as \in [1..n -> DocPredictions] :
                fl = NewFilter("quick_nala", QuickNalaInput(as), EmptyCache)

NextFilter ==
    \/ StubStep
    \/ KeywordsStep
    \/ \E answer \in RawAnswers : ManualStep(answer)
    \/ \E raw \in RawAnswers : ManualStatsStep(raw)
    \/ QuickNalaStep

SpecFilter == InitFilter /\ [][NextFilter]_vars

(***************************************************************************)
(* Claims about the simple filters (checked under SpecFilter).             *)
(***************************************************************************)

InputIds == [i \in DOMAIN fl.input |-> fl.input[i].id]

DistinctIds == \A i, j \in DOMAIN fl.input : fl.input[i].id = fl.input[j].id => i = j

\* where an id stands in the input (ids distinct)
InputIndex(id) == CHOOSE i \in DOMAIN fl.input : fl.input[i].id = id

\* C9: for an input with distinct ids, what the Stub, Keyword, Manual, Manual-with-
\* statistics and Quick-model filters have yielded is at every moment a subsequence
\* of the input in input order: every yielded id is an id of the input pulled so
\* far, and the yielded ids stand in strictly increasing input position (so none
\* is yielded twice and none out of order).
C9_OrderPreservation ==
    (fl.kind \in {"stub", "keywords", "manual", "manual_stats", "quick_nala"} /\ DistinctIds) =>
        /\ \A k \in DOMAIN fl.out :
              \E i \in 1..fl.pos : fl.input[i].id = fl.out[k]
        /\ \A k, l \in DOMAIN fl.out :
              k < l => InputIndex(fl.out[k]) < InputIndex(fl.out[l])

\* a run over MaxInput distinct ids that dropped the middle pair and yielded the rest
C9_Witness ==
    /\ fl.kind \in {"keywords", "manual", "manual_stats", "quick_nala"}
    /\ DistinctIds
    /\ Len(fl.input) = MaxInput /\ fl.pos = MaxInput
    /\ Len(fl.out) = MaxInput - 1
    /\ fl.out[1] = fl.input[1].id

(***************************************************************************)
(* One KeywordsDocumentFilter object, and filter() called on it more than  *)
(* once over the same input.                                               *)
(***************************************************************************)

\* no Iteration object and no bootstrapping folder take part
NoIteration ==
    /\ it = NoObject
    /\ folder_isdir = TRUE /\ crfsuite_isdir = TRUE
    /\ iter_dirs = {} /\ candidates_dirs = {} /\ reviewed_dirs = {}
    /\ bin_models = {} /\ candidates_html = {} /\ reviewed_files = {}
    /\ results_files = {} /\ cv_files = {}
    /\ stats_exists = FALSE /\ stats_rows = <<>>

InitKeywords ==
    /\ NoIteration
    /\ ev = NoPart
    /\ \E n \in 0..MaxInput :
          \E ps \in [1..n -> DocParts] :
             fl = NewFilter("keywords", KeywordsInput(ps), EmptyCache)

NextKeywords ==
    \/ KeywordsStep
    \/ FilterAgain

SpecKeywords == InitKeywords /\ [][NextKeywords]_vars

\* some configured keyword is found in the text of some part of the document
AnyKeywordInAnyPart(doc) == \E i \in DOMAIN doc.parts : doc.parts[i] # {}

\* the run has yielded the id
Yielded(out, id) == \E k \in DOMAIN out : out[k] = id

\* C11: Keyword filter acceptance. Every document the Keyword filter has handled,
\* whatever its position in the input and whatever stood before it, was yielded
\* if and only if at least one configured pattern matches the text of at least
\* one of its parts.
C11_KeywordAcceptance ==
    fl.kind = "keywords" =>
        \A i \in 1..fl.pos :
            Yielded(fl.out, fl.input[i].id) <=> AnyKeywordInAnyPart(fl.input[i])

\* C12: the Keyword filter is stateless. When filter() is called a second time on
\* the same KeywordsDocumentFilter object over the same input, the second call
\* yields what the first call yielded.
C12_KeywordStateless ==
    (fl.kind = "keywords" /\ Len(fl.done) >= 1 /\ Ended) => fl.out = fl.done[1].out

(***************************************************************************)
(* One manual filter object (ManualDocumentFilter or                       *)
(* ManualStatsDocumentFilter), its cache, and filter() called on it more   *)
(* than once over the same input.                                          *)
(***************************************************************************)

InitManual ==
    /\ NoIteration
    /\ ev = NoPart
    /\ \E n \in 0..MaxInput :
          \E ids \in [1..n -> Pmids], cache \in Caches, kind \in {"manual", "manual_stats"} :
             fl = NewFilter(kind, PlainInput(ids), cache)

NextManual ==
    \/ \E answer \in RawAnswers : ManualStep(answer)
    \/ \E raw \in RawAnswers : ManualStatsStep(raw)
    \/ FilterAgain

SpecManual == InitManual /\ [][NextManual]_vars

IsManual == fl.kind \in {"manual", "manual_stats"}

\* the last thing the call did was to ask the operator, who gave the stop response
StopGiven ==
    /\ IsManual
    /\ fl.prompted
    /\ \/ fl.kind = "manual" /\ Lower(fl.answer) = "s"
       \/ fl.kind = "manual_stats" /\ Lower(fl.answer) = "stop"

\* C13: manual stop semantics, for both manual filters. The step in which the
\* operator gives the stop response yields nothing, and from then on the call of
\* filter() pulls no further pair and yields no further document, whatever the
\* cache holds for the rest of the input.
C13_StopSemantics ==
    [][/\ (fl'.kind = fl.kind /\ Len(fl'.done) = Len(fl.done) /\ ~StopGiven /\ StopGiven')
            => fl'.out = fl.out
       /\ (StopGiven /\ Len(fl'.done) = Len(fl.done))
            => (fl'.pos = fl.pos /\ fl'.out = fl.out)]_vars

\* the operator stopped a call while an id the cache holds as accepted was
\* still waiting in the input
C13_Witness ==
    /\ StopGiven /\ fl.stopped
    /\ \E i \in (fl.pos + 1)..Len(fl.input) :
          /\ fl.input[i].id \in DOMAIN fl.cache
          /\ fl.cache[fl.input[i].id]

\* the ids call number r of filter() decided: pulled by it and held in the cache
\* it left
DecidedIn(r) ==
    {fl.input[i].id : i \in 1..fl.done[r].pos} \cap DOMAIN fl.done[r].cache

\* C14: cache idempotence. When a later call of filter() on a manual filter
\* handles an id that an earlier call decided, it asks nothing, leaves the cache
\* as it is, and yields the document if and only if the earlier call yielded it.
C14_CacheIdempotence ==
    [][\A r \in DOMAIN fl.done :
          (/\ IsManual
           /\ Len(fl'.done) = Len(fl.done)
           /\ fl'.pos = fl.pos + 1
           /\ fl.input[fl.pos + 1].id \in DecidedIn(r))
          => /\ ~fl'.prompted
             /\ fl'.cache = fl.cache
             /\ (fl'.out = Append(fl.out, fl.input[fl.pos + 1].id))
                   <=> Yielded(fl.done[r].out, fl.input[fl.pos + 1].id)
             /\ fl'.out # fl.out => fl'.out = Append(fl.out, fl.input[fl.pos + 1].id)]_vars

\* a second call has just yielded, without asking, a document that the operator
\* accepted at a prompt of the first call
C14_Witness ==
    /\ fl.kind = "manual_stats"
    /\ Len(fl.done) = 1 /\ fl.pos >= 1
    /\ ~fl.prompted
    /\ fl.input[fl.pos].id \in DOMAIN fl.answers
    /\ Yielded(fl.done[1].out, fl.input[fl.pos].id)
    /\ fl.out # <<>> /\ fl.out[Len(fl.out)] = fl.input[fl.pos].id

\* the answer is a token the filter knows: an accept label, the reject label or
\* its stop token
Recognized(kind, raw) ==
    IF kind = "manual" THEN Lower(raw) \in {"yes", "y", "no", "s"}
    ELSE Lower(raw) \in yes_answers \cup {"no", "stop"}

\* C15: malformed operator input is asked again, in both manual filters. A prompt
\* answered with something that is no recognized token records no decision in the
\* cache and leaves the same document waiting to be asked about.
C15_MalformedReprompted ==
    [][(/\ IsManual
        /\ Len(fl'.done) = Len(fl.done)
        /\ fl'.prompted
        /\ ~Recognized(fl.kind, fl'.answer))
       => (fl'.cache = fl.cache /\ fl'.pos = fl.pos /\ fl'.out = fl.out)]_vars

\* the answer token a cache entry carries: an entry that is a bare boolean
\* carries none
AnswerToken(entry) == IF entry \in BOOLEAN THEN "none" ELSE entry

\* C25: the statistics variant persists the literal label. After the filter with
\* statistics has decided a document on an answer of the operator, the cache
\* entry of the id of that document carries the answer token that was chosen.
C25_LiteralLabelInCache ==
    (/\ fl.kind = "manual_stats"
     /\ fl.prompted /\ ~fl.stopped /\ fl.pos >= 1
     /\ Lower(fl.answer) \in yes_answers \cup {"no"})
        => /\ fl.input[fl.pos].id \in DOMAIN fl.cache
           /\ AnswerToken(fl.cache[fl.input[fl.pos].id]) \in {fl.answer, Lower(fl.answer)}

\* C26: cache entries are write-once within a manual filter. No step of a manual
\* filter changes or removes an entry the cache holds; the operator is asked only
\* about an id that is absent from the cache; and when the call goes on after
\* an answer, the id is in the cache, so that a later occurrence of the id in the
\* input is not asked about again.
C26_WriteOnce ==
    [][IsManual
          => /\ \A id \in DOMAIN fl.cache :
                   id \in DOMAIN fl'.cache /\ fl'.cache[id] = fl.cache[id]
             /\ (fl'.prompted /\ Len(fl'.done) = Len(fl.done))
                   => /\ fl.pos < Len(fl.input)
                      /\ NextDoc.id \notin DOMAIN fl.cache
                      /\ (fl'.pos > fl.pos /\ ~fl'.stopped)
                            => NextDoc.id \in DOMAIN fl'.cache]_vars

\* an id that stands twice in the input was decided at its first place and is
\* passed at its second place without a question, in the same call
C26_Witness ==
    /\ fl.kind = "manual_stats" /\ fl.done = <<>>
    /\ fl.pos >= 2 /\ ~fl.prompted
    /\ \E j \in 1..(fl.pos - 1) : fl.input[j].id = fl.input[fl.pos].id
    /\ fl.input[fl.pos].id \in DOMAIN fl.answers
    /\ fl.input[fl.pos].id \in DOMAIN fl.cache

\* C32: a stop response records no decision. In both manual filters the step in
\* which the operator gives the stop response, at a document whose id the cache
\* does not hold, leaves the cache as it was: the id is still absent, so that a
\* later call asks about the document again.
C32_StopRecordsNothing ==
    [][(/\ IsManual
        /\ fl'.kind = fl.kind /\ Len(fl'.done) = Len(fl.done)
        /\ ~StopGiven /\ StopGiven')
          => /\ fl'.cache = fl.cache
             /\ NextDoc.id \notin DOMAIN fl'.cache]_vars

(***************************************************************************)
(* The filter with statistics alone: calls of filter() on one object.      *)
(***************************************************************************)
InitStats ==
    /\ NoIteration
    /\ ev = NoPart
    /\ \E n \in 0..MaxInput :
          \E ids \in [1..n -> Pmids], cache \in Caches :
             fl = NewFilter("manual_stats", PlainInput(ids), cache)

NextStats ==
    \/ \E raw \in RawAnswers : ManualStatsStep(raw)
    \/ FilterAgain

SpecStats == InitStats /\ [][NextStats]_vars

\* the ids recorded in the answers map with a label
AnsweredWith(answers, label) == {id \in DOMAIN answers : answers[id] = label}

\* C33: statistics counter consistency. In the filter with statistics, for each
\* label the counter equals the number of ids the answers map holds with that
\* label; a step that asks the operator and gets a decision records the id with
\* its label and adds one to the counter of that label and to no other; and a
\* document answered from the cache, a stop response and an answer that is asked
\* again change neither the counter nor the answers map.
C33_CounterConsistency ==
    [][fl.kind = "manual_stats"
          => /\ \A label \in DOMAIN fl'.counter :
                   fl'.counter[label] = Cardinality(AnsweredWith(fl'.answers, label))
             /\ IF /\ Len(fl'.done) = Len(fl.done)
                   /\ fl'.prompted
                   /\ Lower(fl'.answer) \in yes_answers \cup {"no"}
                THEN /\ NextDoc.id \notin DOMAIN fl.answers
                     /\ fl'.answers = CachePut(fl.answers, NextDoc.id, Lower(fl'.answer))
                     /\ \A label \in DOMAIN fl.counter :
                           fl'.counter[label] = fl.counter[label]
                              + (IF label = Lower(fl'.answer) THEN 1 ELSE 0)
                ELSE /\ fl'.counter = fl.counter
                     /\ fl'.answers = fl.answers]_vars

\* in a second call a document is answered from the cache, after both labels
\* were counted
C33_Witness ==
    /\ fl.kind = "manual_stats"
    /\ Len(fl.done) = 1 /\ fl.pos >= 1 /\ ~fl.prompted
    /\ fl.input[fl.pos].id \in DOMAIN fl.answers
    /\ \A label \in DOMAIN fl.counter : fl.counter[label] >= 1

(***************************************************************************)
(* HighRecallRegexDocumentFilter.filter.  The generator reads its input    *)
(* one document at a time, a document one part at a time and a part one    *)
(* sentence at a time; fl holds the locals of the loop it is in.  What the *)
(* input holds next (the model's predictions for a document, the next      *)
(* sentence of a part) is drawn when the generator reads it.               *)
(***************************************************************************)

\* most documents pulled in one run
MaxDocuments == 2

\* most parts read of one document
MaxParts == 2

\* most sentences read of one part
MaxSentences == 2

\* the min_found given to the constructor or to filter()
MinFounds == {1, 2}

\* self.patterns, the compiled regular expressions
patterns == <<"p1", "p2">>

\* reg.search(new_text) found nothing
NoMatch == <<>>

\* len(sent) of the sentences read
SentLength == 2

\* a sentence, as far as the filter goes: its length and match.span() per pattern;
\* the first pattern matches at the start of a sentence, the second at its end
Sentences ==
    {[length |-> SentLength, spans |-> <<a, b>>] :
        a \in {NoMatch, <<0, 1>>}, b \in {NoMatch, <<SentLength - 1, SentLength>>}}

\* a predicted annotation of data_nala, by its place in the text of the document
NalaAnnotations ==
    [start : {0, SentLength + 2}, length : {1}, subclass : {0, 1},
     confidence : {threshold, threshold + 1}]

\* what the model predicts in one document: nothing or one annotation
NalaPredictions == {<<>>} \cup {<<a>> : a \in NalaAnnotations}

\* HighRecallRegexDocumentFilter(min_found=.., use_nala=..).filter(documents, min_found, use_nala)
NewHighRecall(self_min_found, self_use_nala, min_found, use_nala) ==
    [kind |-> "high_recall",
     self |-> [min_found |-> self_min_found, use_nala |-> self_use_nala,
               threshold |-> threshold],
     min_found |-> min_found, use_nala |-> use_nala,
     pos |-> 0, out |-> <<>>, pc |-> "documents",
     pmid |-> 0, predicted |-> <<>>, parts |-> 0, sentences |-> 0,
     part_offset |-> 0, sent_offset |-> 0, positive_sentences |-> 0,
     matching_sentences |-> 0,
     start |-> 0, end |-> 0, span |-> NoMatch, lengths |-> <<>>]

AtHighRecall(pc) == fl.kind = "high_recall" /\ fl.pc = pc

\* for pmid, doc in documents: the next pair is pulled and, with use_nala, tagged
HRDocument(predicted) ==
    /\ AtHighRecall("documents")
    /\ fl.pos < MaxDocuments
    /\ fl.use_nala \/ predicted = <<>>
    /\ fl' = [fl EXCEPT !.pos = @ + 1, !.pmid = fl.pos + 1, !.predicted = predicted,
                        !.pc = "parts", !.parts = 0, !.part_offset = 0,
                        !.positive_sentences = 0, !.matching_sentences = 0,
                        !.span = NoMatch, !.lengths = <<>>]
    /\ UNCHANGED <<fsVars, it, ev>>

\* for i, x in enumerate(doc.parts): the next part is entered
HRPart ==
    /\ AtHighRecall("parts")
    /\ fl.parts < MaxParts
    /\ fl' = [fl EXCEPT !.parts = @ + 1, !.pc = "sentences", !.sentences = 0,
                        !.sent_offset = 0,
                        !.span = NoMatch, !.lengths = Append(@, <<>>)]
    /\ UNCHANGED <<fsVars, it, ev>>

\* the patterns that match the sentence, in the order they are tried
Matched(sent) == {i \in DOMAIN patterns : sent.spans[i] # NoMatch}

\* nala_doc.overlaps_with_mention(start, end, annotated=False): the first predicted
\* annotation that shares text with [start, end], or none
Overlapping(predicted, start, end) ==
    {k \in DOMAIN predicted :
        start < predicted[k].start + predicted[k].length /\ predicted[k].start <= end}

NoMention == [start |-> 0, length |-> 0, subclass |-> 0, confidence |-> 0]

OverlapsWithMention(predicted, start, end) ==
    IF Overlapping(predicted, start, end) = {} THEN NoMention
    ELSE predicted[SetMin(Overlapping(predicted, start, end))]

\* the patterns whose match the model corroborates: an overlapping predicted
\* annotation with subclass > 0 and confidence <= self.threshold
Corroborated(sent) ==
    {i \in Matched(sent) :
        LET start == fl.part_offset + fl.sent_offset + sent.spans[i][1]
            end   == fl.part_offset + fl.sent_offset + sent.spans[i][2]
            nala_found_mention == OverlapsWithMention(fl.predicted, start, end)
        IN  /\ fl.use_nala
            /\ nala_found_mention # NoMention
            /\ nala_found_mention.subclass > 0
            /\ nala_found_mention.confidence <= fl.self.threshold}

\* yield pmid, doc inside the pattern loop: once per corroborated match, and
\* the loop goes on
MatchYields(sent) == [k \in 1..Cardinality(Corroborated(sent)) |-> fl.pmid]

\* positive_sentences after a sentence: the first matching pattern adds one, and
\* "if found_in_sentence" after the pattern loop adds one more
CountSentence(positive_sentences, sent) ==
    positive_sentences + (IF Matched(sent) # {} THEN 1 ELSE 0)
                       + (IF Matched(sent) # {} THEN 1 ELSE 0)

\* sent_offset += 2 + sent_length, after the patterns were tried on the sentence
NextSentOffset_NoSeparator(sent_offset, sent) == sent_offset + sent.length

NextSentOffset(sent_offset, sent) == sent_offset + 2 + sent.length

\* start and end after the pattern loop: those of the last pattern that matched
\* the sentence, or what they were if none did; span is the match.span() they
\* were computed from
LastSpan(sent) ==
    IF Matched(sent) = {} THEN NoMatch ELSE sent.spans[SetMax(Matched(sent))]

\* for sent in sentences: one sentence is matched against every pattern
\* (matching_sentences, span and lengths are not variables of the code: they
\* record how many sentences of the document matched a pattern, the span of the
\* last match in the sentence, and len(sent) of the sentences read, part by part)
HRSentence(sent) ==
    /\ AtHighRecall("sentences")
    /\ fl.sentences < MaxSentences
    /\ fl' = [fl EXCEPT !.sentences = @ + 1,
                        !.positive_sentences = CountSentence(@, sent),
                        !.matching_sentences = @ + (IF Matched(sent) # {} THEN 1 ELSE 0),
                        !.out = @ \o MatchYields(sent),
                        !.start = IF Matched(sent) = {} THEN @
                                  ELSE fl.part_offset + fl.sent_offset + LastSpan(sent)[1],
                        !.end = IF Matched(sent) = {} THEN @
                                ELSE fl.part_offset + fl.sent_offset + LastSpan(sent)[2],
                        !.span = LastSpan(sent),
                        !.lengths[fl.parts] = Append(@, sent.length),
                        !.sent_offset = NextSentOffset(@, sent)]
    /\ UNCHANGED <<fsVars, it, ev>>

\* the sentences of the part are used up: part_offset += sent_offset
HREndPart ==
    /\ AtHighRecall("sentences")
    /\ fl' = [fl EXCEPT !.pc = "parts", !.part_offset = @ + fl.sent_offset]
    /\ UNCHANGED <<fsVars, it, ev>>

\* with use_nala, every predicted annotation with subclass > 0 adds min_found
CountPredicted(positive_sentences) ==
    IF fl.use_nala
    THEN positive_sentences
         + fl.min_found * Cardinality({k \in DOMAIN fl.predicted : fl.predicted[k].subclass > 0})
    ELSE positive_sentences

\* the parts of the document are used up: the document is yielded if
\* positive_sentences >= min_found, and the next pair is awaited
HREndDocument ==
    /\ AtHighRecall("parts")
    /\ LET positive_sentences == CountPredicted(fl.positive_sentences)
       IN  fl' = [fl EXCEPT !.pc = "documents",
                            !.positive_sentences = positive_sentences,
                            !.out = IF positive_sentences >= fl.min_found
                                    THEN Append(@, fl.pmid) ELSE @]
    /\ UNCHANGED <<fsVars, it, ev>>

InitHighRecall ==
    /\ it = NoObject
    /\ ev = NoPart
    /\ folder_isdir = TRUE /\ crfsuite_isdir = TRUE
    /\ iter_dirs = {} /\ candidates_dirs = {} /\ reviewed_dirs = {}
    /\ bin_models = {} /\ candidates_html = {} /\ reviewed_files = {}
    /\ results_files = {} /\ cv_files = {}
    /\ stats_exists = FALSE /\ stats_rows = <<>>
    /\ \E self_min_found, min_found \in MinFounds, self_use_nala, use_nala \in BOOLEAN :
          fl = NewHighRecall(self_min_found, self_use_nala, min_found, use_nala)

NextHighRecall ==
    \/ \E predicted \in NalaPredictions : HRDocument(predicted)
    \/ HRPart
    \/ \E sent \in Sentences : HRSentence(sent)
    \/ HREndPart
    \/ HREndDocument

SpecHighRecall == InitHighRecall /\ [][NextHighRecall]_vars

(***************************************************************************)
(* Claims about the high-recall filter (checked under SpecHighRecall).     *)
(***************************************************************************)

\* C10: the high-recall filter yields each input pair at most once, with
\* corroboration by the model disabled or enabled: no id stands twice in what a
\* run has yielded (the ids of the input are distinct).
C10_NoDuplication ==
    fl.kind = "high_recall" =>
        \A k, l \in DOMAIN fl.out : fl.out[k] = fl.out[l] => k = l

\* C20: high-recall acceptance threshold. With corroboration by the model
\* disabled, when the filter is done with a document it has yielded the document
\* if and only if the number of sentences of the document that match at least
\* one pattern is at least the min_found the filter was constructed with.
C20_AcceptanceThreshold ==
    (AtHighRecall("documents") /\ fl.pos > 0 /\ ~fl.use_nala)
        => ((\E k \in DOMAIN fl.out : fl.out[k] = fl.pmid)
               <=> fl.matching_sentences >= fl.self.min_found)

\* C21: a sentence counts once. With corroboration disabled, the count of positive
\* sentences of the document being scanned equals the number of its sentences
\* scanned so far that match at least one pattern: a matching sentence has added
\* 1, whatever the number of patterns that match it, and any other sentence 0.
C21_SentenceCountsOnce ==
    (fl.kind = "high_recall" /\ fl.pos > 0 /\ ~fl.use_nala)
        => fl.positive_sentences = fl.matching_sentences

OffsetSentences ==
    UNION {{[length |-> n, spans |-> <<a, b>>] :
               a \in {NoMatch, <<0, n>>},
               b \in {NoMatch} \cup (IF n > 0 THEN {<<n - 1, n>>} ELSE {})} :
           n \in {0, SentLength}}

InitOffsets ==
    /\ NoIteration
    /\ ev = NoPart
    /\ fl = NewHighRecall(1, FALSE, 1, FALSE)

\* one document is scanned: part_offset starts at 0 for every document
NextOffsets ==
    \/ fl.pos = 0 /\ HRDocument(<<>>)
    \/ HRPart
    \/ \E sent \in OffsetSentences : HRSentence(sent)
    \/ HREndPart
    \/ HREndDocument

SpecOffsets == InitOffsets /\ [][NextOffsets]_vars

\* the sum over the sentences of (sentence length + 2)
RECURSIVE SumOffsets(_)
SumOffsets(lens) ==
    IF lens = <<>> THEN 0 ELSE Head(lens) + 2 + SumOffsets(Tail(lens))

\* S_k: the sum over the sentences before sentence k of the part
SentenceOffset(lens, k) == SumOffsets(SubSeq(lens, 1, k - 1))

\* P: the sum over the parts before part p of their final sentence offsets
RECURSIVE PartOffset(_, _)
PartOffset(lengths, p) ==
    IF p <= 1 THEN 0 ELSE PartOffset(lengths, p - 1) + SumOffsets(lengths[p - 1])

\* C23: offset bookkeeping of the high-recall filter. After sentence k of a part
\* was scanned, the span computed for its last match is (P + S_k + m_start,
\* P + S_k + m_end); sent_offset has advanced by the length of the sentence plus
\* 2, also for a sentence of length 0; and in the single part split into two
\* sentences of length 2 ("AA", "BB"), a match of all of the second sentence has
\* the span (4, 6).
C23_OffsetBookkeeping ==
    (fl.kind = "high_recall" /\ fl.pc = "sentences" /\ fl.sentences > 0)
        => LET lens == fl.lengths[fl.parts]
               P    == PartOffset(fl.lengths, fl.parts)
               S    == SentenceOffset(lens, fl.sentences)
           IN  /\ Len(lens) = fl.sentences
               /\ fl.span # NoMatch
                     => /\ fl.start = P + S + fl.span[1]
                        /\ fl.end = P + S + fl.span[2]
               /\ fl.sent_offset = S + lens[fl.sentences] + 2
               /\ (fl.lengths = <<(<<2, 2>>)>> /\ fl.span = <<0, 2>>)
                     => (fl.start = 4 /\ fl.end = 6)

\* the second sentence of the first part of a document was matched as a whole,
\* after a first sentence of length 2
C23_Witness ==
    /\ fl.kind = "high_recall" /\ fl.pc = "sentences"
    /\ fl.lengths = <<(<<2, 2>>)>>
    /\ fl.span = <<0, 2>>
    /\ fl.start = 4 /\ fl.end = 6

(***************************************************************************)
(* Iteration.evaluation: the matching of the gold and the predicted        *)
(* entities of one part of self.reviewed into the list of result pairs.    *)
(***************************************************************************)

\* the highest offset of an entity
MaxOffset == 4

\* the longest text of an entity
MaxLength == 3

\* the most gold entities, and the most predicted entities, of a part
MaxEntities == 2

\* an entity of the mutation class, by its offset and the length of its text
Entities == [offset : 0..MaxOffset, length : 1..MaxLength]

\* Entity(class_id='e_2', offset=-1, text='')
Sentinel == [offset |-> -1, length |-> 0]

\* ann == pred under Entity.equality_operator = 'exact_or_overlapping': the
\* same span, or spans that share text
EntityEq(a, b) ==
    \/ a = b
    \/ a.offset < b.offset + b.length /\ b.offset < a.offset + a.length

\* x in list
ListContains(list, x) == \E i \in DOMAIN list : EntityEq(list[i], x)

\* list.index(x): the first element that compares equal to x
ListIndex(list, x) == SetMin({i \in DOMAIN list : EntityEq(list[i], x)})

\* del list[index]
ListDel(list, index) == SubSeq(list, 1, index - 1) \o SubSeq(list, index + 1, Len(list))

\* if x in list: index = list.index(x); del list[index]
DeleteFound(list, x) == IF ListContains(list, x) THEN ListDel(list, ListIndex(list, x)) ELSE list

\* the body of the loop over product(annotations, predicted_annotations)
MatchPair(acc, ann, pred) ==
    IF EntityEq(ann, pred)
    THEN [results |-> Append(acc.results, <<ann, pred>>),
          not_found_ann |-> DeleteFound(acc.not_found_ann, ann),
          not_found_pred |-> DeleteFound(acc.not_found_pred, pred)]
    ELSE acc

\* the loop over product(annotations, predicted_annotations), from its k-th pair on
RECURSIVE MatchProduct(_, _, _, _)
MatchProduct(annotations, predicted, k, acc) ==
    IF k > Len(annotations) * Len(predicted) THEN acc
    ELSE MatchProduct(annotations, predicted, k + 1,
                      MatchPair(acc, annotations[((k - 1) \div Len(predicted)) + 1],
                                     predicted[((k - 1) % Len(predicted)) + 1]))

\* the result pairs of one part: the matched pairs, then the gold entities left
\* in not_found_ann, then the predicted entities left in not_found_pred
PartResults(annotations, predicted) ==
    LET m == MatchProduct(annotations, predicted, 1,
                          [results |-> <<>>, not_found_ann |-> annotations,
                           not_found_pred |-> predicted])
    IN  m.results
          \o [i \in 1..Len(m.not_found_ann) |-> <<m.not_found_ann[i], Sentinel>>]
          \o [i \in 1..Len(m.not_found_pred) |-> <<Sentinel, m.not_found_pred[i]>>]

\* evaluation handles one part
MatchPart ==
    /\ ev.op = "read"
    /\ ev' = [ev EXCEPT !.op = "matched",
                        !.results = PartResults(ev.annotations, ev.predicted)]
    /\ UNCHANGED <<fsVars, it, fl>>

\* lists of up to MaxEntities entities, no entity twice
EntityLists ==
    UNION {{l \in [1..n -> Entities] : \A i, j \in 1..n : l[i] = l[j] => i = j} :
              n \in 0..MaxEntities}

InitMatch ==
    /\ NoIteration
    /\ fl = NoFilter
    /\ \E annotations \in EntityLists, predicted \in EntityLists :
          ev = [op |-> "read", annotations |-> annotations, predicted |-> predicted,
                results |-> <<>>]

NextMatch == MatchPart

SpecMatch == InitMatch /\ [][NextMatch]_vars

(***************************************************************************)
(* Claims about the matching (checked under SpecMatch).                    *)
(***************************************************************************)

\* the result pairs in which a gold entity stands with a predicted entity
MatchedPairs ==
    {i \in DOMAIN ev.results : ev.results[i][1] # Sentinel /\ ev.results[i][2] # Sentinel}

\* C16: the matching is one-to-one. In the result pairs of a part no gold entity
\* stands in two matched pairs and no predicted entity stands in two matched
\* pairs, whatever the gold and predicted lists.
C16_OneToOne ==
    ev.op = "matched" =>
        \A i, j \in MatchedPairs :
            i # j => /\ ev.results[i][1] # ev.results[j][1]
                     /\ ev.results[i][2] # ev.results[j][2]

\* the result pairs whose gold side is g, and those whose predicted side is p
PairsOfGold(g) == {i \in DOMAIN ev.results : ev.results[i][1] = g}
PairsOfPredicted(p) == {i \in DOMAIN ev.results : ev.results[i][2] = p}

\* C17: unmatched entities are reported exactly once. A gold entity that equals
\* no predicted entity stands in exactly one result pair, with the sentinel
\* prediction; a predicted entity that equals no gold entity stands in exactly
\* one result pair, with the sentinel gold entity; an entity that equals one of
\* the other list never stands with a sentinel; and every entity stands in some
\* result pair.
C17_UnmatchedOnce ==
    ev.op = "matched" =>
        /\ \A k \in DOMAIN ev.annotations :
              LET g == ev.annotations[k]
                  hit == \E l \in DOMAIN ev.predicted : EntityEq(g, ev.predicted[l])
              IN  /\ PairsOfGold(g) # {}
                  /\ ~hit => /\ Cardinality(PairsOfGold(g)) = 1
                             /\ \A i \in PairsOfGold(g) : ev.results[i][2] = Sentinel
                  /\ hit => \A i \in PairsOfGold(g) : ev.results[i][2] # Sentinel
        /\ \A l \in DOMAIN ev.predicted :
              LET p == ev.predicted[l]
                  hit == \E k \in DOMAIN ev.annotations : EntityEq(ev.annotations[k], p)
              IN  /\ PairsOfPredicted(p) # {}
                  /\ ~hit => /\ Cardinality(PairsOfPredicted(p)) = 1
                             /\ \A i \in PairsOfPredicted(p) : ev.results[i][1] = Sentinel
                  /\ hit => \A i \in PairsOfPredicted(p) : ev.results[i][1] # Sentinel

====
